---- MODULE Spec2Model ----
(***************************************************************************)
(* Content-moderation batch of src/profanity_check.py: the signal          *)
(* aggregator, the escalation policy, the decision merger and the          *)
(* per-record state machine driven by lambda_handler.                      *)
(*                                                                         *)
(* Numbers.  Scores, probabilities, intensities and ratios are kept in     *)
(* hundredths (total_score 3.5 is 350, probability 0.75 is 75).            *)
(* Confidences are kept in 1/600 (1.0 is 600), so that total_score / 6.0   *)
(* is exact: a total score of 350 hundredths is the confidence 350/600.    *)
(* The arithmetic is exact where the program's is binary floating point.   *)
(***************************************************************************)
EXTENDS Integers, Sequences, FiniteSets, TLC

\* Bounds of the model.
NumRecords == 2     \* rows of the complaints table

VARIABLES
    severity_threshold, \* ProductionModerationService.severity_threshold
    analysis,           \* `analysis` of the record processed last ({} if none)
    db,                 \* the complaints table: moderation columns by id
    pc,                 \* "idle": no invocation running; "loop": in the for loop
    force_ai_analysis,  \* event.get('force_ai_analysis', False)
    batch_size,         \* batch_size after validation
    complaints,         \* the rows fetched by this invocation, in order
    idx,                \* position of the for loop in complaints
    metrics,            \* the metrics accumulator
    response,           \* what the latest invocation returned ({} if none)
    attempt,            \* what the loop body did for the record processed last
    context,            \* the time budget the platform leaves the invocation:
                        \* "ample", or "expiring" close to the deadline
    event               \* the event of the running invocation ({} if none)

vars == <<severity_threshold, analysis, db, pc, force_ai_analysis, batch_size,
          complaints, idx, metrics, response, attempt, context, event>>

batchVars == <<db, pc, force_ai_analysis, batch_size, complaints, idx, metrics,
               response, attempt, context, event>>

----------------------------------------------------------------------------
(* Program constants, in the units above.                                  *)

MlWeight == 4                  \* profanity_probability * 4
DictWordPenalty == 150         \* word_count * 1.5
DictMaxPenalty == 300          \* min(..., 3)
StrongIntensity == 60          \* intensity > 0.6
StrongWeight == 2              \* intensity * 2
ModerateIntensity == 30        \* intensity > 0.3
CapsRatio == 30                \* uppercase_ratio > 0.3
CapsScore == 50                \* total_score += 0.5
ExclamationLimit == 3          \* exclamation_count > 3
ExclamationScore == 30         \* total_score += 0.3
ConfidenceOne == 600           \* min(total_score / 6.0, 1.0): 1.0
CriticalScore == 500           \* total_score >= 5
HighScore == 350               \* total_score >= 3.5
HighConfidence == 420          \* confidence_score > 0.7
BorderlineLow == 180           \* 0.3 <= confidence_score
DefaultConfidence == 300       \* .get('confidence_score', 0.5)
DefaultSeverityThreshold == 3  \* SEVERITY_THRESHOLD, '3'
NegativeCompound == 5          \* compound <= -0.05
ProfaneProbability == 50       \* predict: probability above 0.5

Min(a, b) == IF a <= b THEN a ELSE b
Max(a, b) == IF a >= b THEN a ELSE b
Abs(a) == IF a < 0 THEN 0 - a ELSE a

\* dict.get(key, default)
Get(d, key, default) == IF key \in DOMAIN d THEN d[key] ELSE default

\* d[key] = value
SetKey(d, key, value) ==
    [k \in DOMAIN d \cup {key} |-> IF k = key THEN value ELSE d[k]]

----------------------------------------------------------------------------
(* Signal extractors: each returns its report, or an error-tagged report   *)
(* without the finding keys.                                               *)

ErrorReport(method) == [error |-> TRUE, method |-> method]

\* _ml_profanity_analysis: prob is predict_prob, is_profane is predict == 1
ml_profanity_analysis(prob) ==
    [is_profane |-> prob > ProfaneProbability,
     profanity_probability |-> prob,
     method |-> "ml_based"]

\* _dictionary_profanity_analysis: contains_profanity and the flagged words
dictionary_profanity_analysis(has, words) ==
    [has_profanity |-> has, word_count |-> words, method |-> "dictionary_based"]

\* _sentiment_analysis: the label and the intensity from the compound score
sentiment_analysis(compound) ==
    [sentiment |-> IF compound >= NegativeCompound THEN "POSITIVE"
                   ELSE IF compound <= 0 - NegativeCompound THEN "NEGATIVE"
                   ELSE "NEUTRAL",
     compound_score |-> compound,
     intensity |-> Abs(compound),
     method |-> "nltk_vader"]

\* _analyze_text_stats: {} on failure
analyze_text_stats(upper, excl) ==
    [uppercase_ratio |-> upper, exclamation_count |-> excl]

EmptyDict == [x \in {} |-> TRUE]

----------------------------------------------------------------------------
(* Signal aggregator.                                                      *)

\* the contributions of _calculate_overall_assessment, in the order the
\* code adds them
MlFired(results) == Get(results.ml_profanity_check, "is_profane", FALSE)
MlScore(results) ==
    IF MlFired(results)
    THEN Get(results.ml_profanity_check, "profanity_probability", 0) * MlWeight
    ELSE 0

DictFired(results) == Get(results.dictionary_profanity, "has_profanity", FALSE)

\* faulty variant of DictScore: the penalty is not capped at 3 points
DictScore_Uncapped(results) ==
    IF Get(results.dictionary_profanity, "has_profanity", FALSE)
    THEN Get(results.dictionary_profanity, "word_count", 0) * DictWordPenalty
    ELSE 0

DictScore(results) ==
    IF DictFired(results)
    THEN Min(Get(results.dictionary_profanity, "word_count", 0) * DictWordPenalty,
             DictMaxPenalty)
    ELSE 0

SentimentIsNegative(results) ==
    Get(results.sentiment_analysis, "sentiment", "NONE") = "NEGATIVE"
SentimentIntensity(results) == Get(results.sentiment_analysis, "intensity", 0)
StrongFired(results) ==
    SentimentIsNegative(results) /\ SentimentIntensity(results) > StrongIntensity
ModerateFired(results) ==
    /\ SentimentIsNegative(results)
    /\ ~(SentimentIntensity(results) > StrongIntensity)
    /\ SentimentIntensity(results) > ModerateIntensity
SentimentScore(results) ==
    IF StrongFired(results) THEN SentimentIntensity(results) * StrongWeight
    ELSE IF ModerateFired(results) THEN SentimentIntensity(results)
    ELSE 0

CapsFired(results) == Get(results.text_stats, "uppercase_ratio", 0) > CapsRatio
CapsContribution(results) == IF CapsFired(results) THEN CapsScore ELSE 0
ExclamationFired(results) ==
    Get(results.text_stats, "exclamation_count", 0) > ExclamationLimit
ExclamationContribution(results) ==
    IF ExclamationFired(results) THEN ExclamationScore ELSE 0

TotalScore(results) ==
    MlScore(results) + DictScore(results) + SentimentScore(results)
        + CapsContribution(results) + ExclamationContribution(results)

Tag(fired, tag) == IF fired THEN <<tag>> ELSE <<>>

FlaggedMethods(results) ==
    Tag(MlFired(results), "ML_PROFANITY")
        \o Tag(DictFired(results), "DICTIONARY_PROFANITY")
        \o Tag(StrongFired(results), "STRONG_NEGATIVE_SENTIMENT")
        \o Tag(ModerateFired(results), "MODERATE_NEGATIVE_SENTIMENT")
        \o Tag(CapsFired(results), "EXCESSIVE_CAPS")

Concerns(results) ==
    Tag(MlFired(results), "ML detected profanity")
        \o Tag(DictFired(results), "Dictionary flagged word(s)")
        \o Tag(StrongFired(results), "Strong negative sentiment")
        \o Tag(ModerateFired(results), "Moderate negative sentiment")
        \o Tag(CapsFired(results), "Excessive capital letters detected")
        \o Tag(ExclamationFired(results), "Multiple exclamation marks")

InSeq(x, s) == \E i \in 1..Len(s) : s[i] = x

\* faulty variant of should_use_ai_analysis: no rule for a sole strong
\* negative sentiment
should_use_ai_analysis_NoSentimentRule(assessment) ==
    LET confidence == Get(assessment, "confidence_score", 0)
        methods == Get(assessment, "flagged_by_methods", <<>>)
    IN  \/ confidence > HighConfidence
        \/ Len(methods) >= 2
        \/ BorderlineLow <= confidence /\ confidence <= HighConfidence

\* faulty variant of should_use_ai_analysis: no rule for a confidence above 0.7
should_use_ai_analysis_NoHighConfidenceRule(assessment) ==
    LET confidence == Get(assessment, "confidence_score", 0)
        methods == Get(assessment, "flagged_by_methods", <<>>)
    IN  \/ Len(methods) >= 2
        \/ BorderlineLow <= confidence /\ confidence <= HighConfidence
        \/ InSeq("STRONG_NEGATIVE_SENTIMENT", methods) /\ Len(methods) = 1

\* _should_use_ai_analysis
should_use_ai_analysis(assessment) ==
    LET confidence == Get(assessment, "confidence_score", 0)
        methods == Get(assessment, "flagged_by_methods", <<>>)
    IN  \/ confidence > HighConfidence
        \/ Len(methods) >= 2
        \/ BorderlineLow <= confidence /\ confidence <= HighConfidence
        \/ InSeq("STRONG_NEGATIVE_SENTIMENT", methods) /\ Len(methods) = 1

\* faulty variant of FailSafeAssessment: a failed aggregation approves
FailSafeAssessment_Approves ==
    [should_flag |-> FALSE, severity_level |-> "LOW", recommendation |-> "APPROVE",
     error |-> "aggregation failed"]

\* the except branch of _calculate_overall_assessment
FailSafeAssessment ==
    [should_flag |-> TRUE, severity_level |-> "HIGH", recommendation |-> "REVIEW",
     error |-> "aggregation failed"]

\* faulty variant of SeverityOf: HIGH only above 3.5
SeverityOf_StrictHigh(total_score, threshold) ==
    IF total_score >= threshold * 100
    THEN IF total_score >= CriticalScore THEN "CRITICAL"
         ELSE IF total_score > HighScore THEN "HIGH"
         ELSE "MEDIUM"
    ELSE "LOW"

\* the severity and the recommendation chosen for a total score
SeverityOf(total_score, threshold) ==
    IF total_score >= threshold * 100
    THEN IF total_score >= CriticalScore THEN "CRITICAL"
         ELSE IF total_score >= HighScore THEN "HIGH"
         ELSE "MEDIUM"
    ELSE "LOW"

RecommendationOf(total_score, threshold) ==
    IF total_score >= threshold * 100
    THEN IF total_score >= CriticalScore THEN "ESCALATE"
         ELSE IF total_score >= HighScore THEN "FLAG"
         ELSE "REVIEW"
    ELSE "APPROVE"

\* faulty variant of calculate_overall_assessment: the confidence is
\* total_score / 6.0 without the min
calculate_overall_assessment_Unbounded(results, threshold, fails) ==
    IF fails THEN FailSafeAssessment
    ELSE LET total_score == TotalScore(results)
             scored ==
                 [should_flag |-> total_score >= threshold * 100,
                  confidence_score |-> total_score,
                  severity_level |-> SeverityOf(total_score, threshold),
                  primary_concerns |-> Concerns(results),
                  flagged_by_methods |-> FlaggedMethods(results),
                  recommendation |-> RecommendationOf(total_score, threshold)]
         IN  SetKey(scored, "requires_ai_analysis", should_use_ai_analysis(scored))

\* _calculate_overall_assessment; fails: the body raises
calculate_overall_assessment(results, threshold, fails) ==
    IF fails THEN FailSafeAssessment
    ELSE LET total_score == TotalScore(results)
             scored ==
                 [should_flag |-> total_score >= threshold * 100,
                  confidence_score |-> Min(total_score, ConfidenceOne),
                  severity_level |-> SeverityOf(total_score, threshold),
                  primary_concerns |-> Concerns(results),
                  flagged_by_methods |-> FlaggedMethods(results),
                  recommendation |-> RecommendationOf(total_score, threshold)]
         IN  SetKey(scored, "requires_ai_analysis", should_use_ai_analysis(scored))

\* comprehensive_profanity_analysis
comprehensive_profanity_analysis(reports, threshold, fails) ==
    [text_stats |-> reports.text_stats,
     ml_profanity_check |-> reports.ml_profanity_check,
     dictionary_profanity |-> reports.dictionary_profanity,
     sentiment_analysis |-> reports.sentiment_analysis,
     overall_assessment |-> calculate_overall_assessment(reports, threshold, fails)]

----------------------------------------------------------------------------
(* Secondary analyzer and decision merger.                                 *)

\* The JSON object the model returns.  A key of `present` is in the object;
\* urgency "<list>" is a JSON value that is not hashable; confidence is
\* [numeric, value], numeric = FALSE for a JSON string or null.
AiData(present, urgency, action, confidence) ==
    [k \in present |->
        CASE k = "urgency" -> urgency
          [] k = "recommended_action" -> action
          [] k = "confidence" -> confidence]

\* analyze_with_bedrock: the two shapes it returns
BedrockFailure == [success |-> FALSE, error |-> "bedrock call failed"]
BedrockSuccess(ai_data) ==
    [success |-> TRUE, ai_analysis |-> ai_data, model_used |-> "bedrock_model_id"]

\* _map_ai_urgency_to_severity
map_ai_urgency_to_severity(urgency) ==
    IF urgency \in {"LOW", "MEDIUM", "HIGH", "CRITICAL"} THEN urgency ELSE "LOW"

\* _severity_rank
severity_rank(severity) ==
    CASE severity = "LOW" -> 1
      [] severity = "MEDIUM" -> 2
      [] severity = "HIGH" -> 3
      [] severity = "CRITICAL" -> 4
      [] OTHER -> 1

\* the decision _combine_library_and_ai_results and enhanced_analysis build
\* from the library assessment
LibraryDecision(assessment, method) ==
    [should_flag |-> Get(assessment, "should_flag", FALSE),
     severity_level |-> Get(assessment, "severity_level", "LOW"),
     confidence |-> Get(assessment, "confidence_score", DefaultConfidence),
     recommendation |-> Get(assessment, "recommendation", "APPROVE"),
     primary_method |-> method,
     reasoning |-> Get(assessment, "primary_concerns", <<>>),
     detection_methods |-> Get(assessment, "flagged_by_methods", <<>>)]

AiSucceeded(ai_results) == Get(ai_results, "success", FALSE)

\* mapping.get(urgency) raises TypeError on an unhashable key
UrgencyRaises(ai_data) == Get(ai_data, "urgency", "LOW") = "<list>"

AiSeverity(ai_data) == map_ai_urgency_to_severity(Get(ai_data, "urgency", "LOW"))

\* max(confidence, ai confidence) raises TypeError on a non-number
ConfidenceRaises(ai_data) ==
    "confidence" \in DOMAIN ai_data /\ ~ai_data.confidence.numeric

AiConfidence(ai_data) ==
    IF "confidence" \in DOMAIN ai_data THEN ai_data.confidence.value ELSE 0

\* faulty variant of AiOverrides: any different rank overrides, a lower one too
AiOverrides_AnyDifference(final_decision, ai_data) ==
    severity_rank(AiSeverity(ai_data)) # severity_rank(final_decision.severity_level)

\* the AI judgment has the strictly greater severity rank
AiOverrides(final_decision, ai_data) ==
    severity_rank(AiSeverity(ai_data)) > severity_rank(final_decision.severity_level)

\* final_decision.update({...}) and the appended reasoning
Override(final_decision, ai_data) ==
    [k \in DOMAIN final_decision \cup {"ai_insights"} |->
        CASE k = "severity_level" -> AiSeverity(ai_data)
          [] k = "recommendation" ->
                Get(ai_data, "recommended_action", final_decision.recommendation)
          [] k = "confidence" -> Max(final_decision.confidence, AiConfidence(ai_data))
          [] k = "ai_insights" -> "recorded"
          [] k = "reasoning" ->
                Append(final_decision.reasoning, "AI analysis enhanced severity assessment")
          [] OTHER -> final_decision[k]]

\* the try body of _combine_library_and_ai_results raises
CombineRaises(library_assessment, ai_results) ==
    /\ AiSucceeded(ai_results) /\ "ai_analysis" \in DOMAIN ai_results
    /\ \/ UrgencyRaises(ai_results.ai_analysis)
       \/ /\ AiOverrides(LibraryDecision(library_assessment, "combined_analysis"),
                          ai_results.ai_analysis)
          /\ ConfidenceRaises(ai_results.ai_analysis)

\* faulty variant of combine_library_and_ai_results: a failed secondary call
\* degrades the decision to flag, HIGH, REVIEW
combine_FailSafeOnAiFailure(library_assessment, ai_results) ==
    LET final_decision == LibraryDecision(library_assessment, "combined_analysis")
    IN  IF ~AiSucceeded(ai_results)
        THEN [final_decision EXCEPT !.should_flag = TRUE, !.severity_level = "HIGH",
                                    !.recommendation = "REVIEW"]
        ELSE IF CombineRaises(library_assessment, ai_results) THEN library_assessment
        ELSE IF AiOverrides(final_decision, ai_results.ai_analysis)
             THEN Override(final_decision, ai_results.ai_analysis)
             ELSE final_decision

\* _combine_library_and_ai_results
combine_library_and_ai_results(library_assessment, ai_results) ==
    LET final_decision == LibraryDecision(library_assessment, "combined_analysis")
    IN  IF CombineRaises(library_assessment, ai_results) THEN library_assessment
        ELSE IF /\ AiSucceeded(ai_results) /\ "ai_analysis" \in DOMAIN ai_results
                /\ AiOverrides(final_decision, ai_results.ai_analysis)
             THEN Override(final_decision, ai_results.ai_analysis)
             ELSE final_decision

\* enhanced_analysis; bedrock is what analyze_with_bedrock returns if called
enhanced_analysis(reports, threshold, fails, bedrock) ==
    LET library_results == comprehensive_profanity_analysis(reports, threshold, fails)
        overall_assessment == library_results.overall_assessment
        escalate == Get(overall_assessment, "requires_ai_analysis", FALSE)
    IN  [library_analysis |-> library_results,
         ai_analysis |-> IF escalate THEN bedrock ELSE EmptyDict,
         final_decision |->
            IF escalate
            THEN combine_library_and_ai_results(overall_assessment, bedrock)
            ELSE LibraryDecision(overall_assessment, "libraries_only")]

----------------------------------------------------------------------------
(* Inputs of the analysis.                                                 *)

Probabilities == {50, 51, 75, 100}
WordCounts == 0..3
Compounds == {-100, -61, -60, -31, -30, 0, 61}
UppercaseRatios == {30, 31}
ExclamationCounts == {3, 4}

MlReports ==
    {ErrorReport("ml_based")} \cup {ml_profanity_analysis(p) : p \in Probabilities}
DictionaryReports ==
    {ErrorReport("dictionary_based"), dictionary_profanity_analysis(FALSE, 0)}
        \cup {dictionary_profanity_analysis(TRUE, n) : n \in WordCounts}
SentimentReports ==
    {ErrorReport("nltk_vader")} \cup {sentiment_analysis(c) : c \in Compounds}
TextStatsReports ==
    {EmptyDict} \cup {analyze_text_stats(u, e) : u \in UppercaseRatios,
                                                 e \in ExclamationCounts}

Reports ==
    [ml_profanity_check : MlReports, dictionary_profanity : DictionaryReports,
     sentiment_analysis : SentimentReports, text_stats : TextStatsReports]

Urgencies == {"LOW", "MEDIUM", "HIGH", "CRITICAL", "URGENT", "<list>"}
Actions == {"APPROVE", "REVIEW", "FLAG", "ESCALATE"}
AiConfidences == {[numeric |-> FALSE, value |-> 0], [numeric |-> TRUE, value |-> 540]}
AiKeys == {"urgency", "recommended_action", "confidence"}

AiDatas ==
    {AiData(present, u, a, c) :
        present \in SUBSET AiKeys, u \in Urgencies, a \in {"FLAG"},
        c \in AiConfidences}

BedrockOutcomes == {BedrockFailure} \cup {BedrockSuccess(d) : d \in AiDatas}

SeverityThresholds == {1, DefaultSeverityThreshold, 6}

----------------------------------------------------------------------------
(* Text extraction.  A complaint_xml value is [kind, ...]: kind "null" is  *)
(* NULL or blank, "malformed" does not parse, "document" parses; for a     *)
(* document each element is the length of its stripped text, 0 when the    *)
(* element is missing or empty.                                            *)

MinTextLength == 5             \* len(complaint_text.strip()) < 5

XmlDocument(complaint_text, description, message, subject) ==
    [kind |-> "document", complaint_text |-> complaint_text,
     description |-> description, message |-> message, subject |-> subject]
XmlNull == [XmlDocument(0, 0, 0, 0) EXCEPT !.kind = "null"]
XmlMalformed == [XmlDocument(0, 0, 0, 0) EXCEPT !.kind = "malformed"]

\* a or b, on text lengths: the first non-empty one
OrElse(a, b) == IF a > 0 THEN a ELSE b

None == [none |-> TRUE]

\* xml_to_json_converter: None or the JSON data
xml_to_json_converter(xml_data) ==
    IF xml_data.kind # "document" THEN None
    ELSE [complaint_text |->
              OrElse(xml_data.complaint_text,
                     OrElse(xml_data.description, xml_data.message)),
          complaint_details |->
              [subject |-> xml_data.subject, description |-> xml_data.description]]

\* _extract_complaint_text: the length of the text found, 0 for ''
extract_complaint_text(json_data) ==
    OrElse(json_data.complaint_text,
           OrElse(json_data.complaint_details.description,
                  json_data.complaint_details.subject))

\* faulty variant of process_complaint_from_db: only an empty text is refused
process_complaint_from_db_NoMinimum(db_record) ==
    LET json_data == xml_to_json_converter(db_record.complaint_xml)
    IN  IF json_data = None THEN None
        ELSE IF extract_complaint_text(json_data) = 0 THEN None
        ELSE [db_id |-> db_record.id, user_id |-> db_record.user_id,
              complaint_text |-> extract_complaint_text(json_data)]

\* process_complaint_from_db: None or the processed complaint
process_complaint_from_db(db_record) ==
    LET json_data == xml_to_json_converter(db_record.complaint_xml)
    IN  IF json_data = None THEN None
        ELSE IF extract_complaint_text(json_data) < MinTextLength THEN None
        ELSE [db_id |-> db_record.id, user_id |-> db_record.user_id,
              complaint_text |-> extract_complaint_text(json_data)]

----------------------------------------------------------------------------
(* The complaints table.                                                   *)

Ids == 1..NumRecords

\* columns the program never writes
Priority(id) ==
    CASE id % 4 = 1 -> "normal"
      [] id % 4 = 2 -> "urgent"
      [] id % 4 = 3 -> "low"
      [] OTHER -> "high"
CreatedAt(id) == id
ComplaintStatus(id) == "pending"

\* CASE priority WHEN 'urgent' THEN 1 WHEN 'high' THEN 2 WHEN 'normal' THEN 3 ELSE 4
PriorityRank(priority) ==
    CASE priority = "urgent" -> 1
      [] priority = "high" -> 2
      [] priority = "normal" -> 3
      [] OTHER -> 4

\* faulty variant of Eligible: the moderation status is not filtered
Eligible_AnyModerationStatus(table, status) ==
    {id \in Ids : ComplaintStatus(id) = status}

\* the WHERE clause of fetch_complaints_from_db
Eligible(table, status) ==
    {id \in Ids : /\ ComplaintStatus(id) = status
                  /\ table[id].moderation_status \in {"NULL", "retry"}}

\* the ORDER BY clause
Before(a, b) ==
    \/ PriorityRank(Priority(a)) < PriorityRank(Priority(b))
    \/ /\ PriorityRank(Priority(a)) = PriorityRank(Priority(b))
       /\ CreatedAt(a) < CreatedAt(b)

RECURSIVE Ordered(_)
Ordered(ids) ==
    IF ids = {} THEN <<>>
    ELSE LET first == CHOOSE a \in ids : \A b \in ids \ {a} : Before(a, b)
         IN  <<first>> \o Ordered(ids \ {first})

\* LIMIT
Take(s, n) == SubSeq(s, 1, Min(Len(s), n))

\* fetch_complaints_from_db; fails: the query raises and [] is returned
fetch_complaints_from_db(table, limit, status, fails) ==
    IF fails THEN <<>> ELSE Take(Ordered(Eligible(table, status)), limit)

\* the columns of a fetched row, complaint_xml aside
FetchedRow(id) ==
    [id |-> id, user_id |-> id, created_at |-> CreatedAt(id),
     status |-> ComplaintStatus(id), priority |-> Priority(id)]

\* json.dumps(analysis_result), kept to the keys the properties read
dumps(analysis_result) ==
    [error |-> Get(analysis_result, "error", ""),
     retry_count |-> Get(analysis_result, "retry_count", 0),
     primary_method |->
        Get(Get(analysis_result, "final_decision", EmptyDict), "primary_method", "")]

\* update_moderation_status, when the UPDATE commits
update_moderation_status(table, complaint_id, status, analysis_result) ==
    [table EXCEPT ![complaint_id] =
        [moderation_status |-> status,
         moderation_result |-> dumps(analysis_result),
         severity_level |->
            Get(Get(analysis_result, "final_decision", EmptyDict),
                "severity_level", "LOW")]]

NewRow ==
    [moderation_status |-> "NULL", moderation_result |-> dumps(EmptyDict),
     severity_level |-> "NULL"]

----------------------------------------------------------------------------
(* lambda_handler.                                                         *)

ZeroMetrics ==
    [processed_count |-> 0, flagged_count |-> 0, ai_used_count |-> 0,
     error_count |-> 0, library_only_count |-> 0]

Inc(m, counter) == [m EXCEPT ![counter] = @ + 1]

MaxBatchSize == 200            \* if batch_size > 200
DefaultBatchSize == 50         \* event.get('batch_size', 50)

\* the validated batch size
\* faulty variant of ValidBatchSize: the requested size is used as it is
ValidBatchSize_Unclamped(ev) == Get(ev, "batch_size", DefaultBatchSize)

ValidBatchSize(ev) ==
    LET requested == Get(ev, "batch_size", DefaultBatchSize)
    IN  IF requested > MaxBatchSize THEN MaxBatchSize ELSE requested

Events ==
    {EmptyDict, [batch_size |-> 1], [force_ai_analysis |-> TRUE],
     [status_filter |-> "resolved"], [batch_size |-> 200], [batch_size |-> 1000]}

Call(op, ok) == [op |-> op, ok |-> ok]

\* one call of update_moderation_status, as the attempt records it
Write(status, analysis_result, ok) ==
    [status |-> status, result |-> dumps(analysis_result),
     severity_level |->
        Get(Get(analysis_result, "final_decision", EmptyDict), "severity_level", "LOW"),
     ok |-> ok]

\* the payload of the retry update; db_record is the fetched row
RetryPayload(db_record, error) ==
    [error |-> error, retry_count |-> Get(db_record, "retry_count", 0) + 1]

NoAttempt ==
    [id |-> 0, prior |-> "NULL", complaint_xml |-> XmlNull, ai_results |-> EmptyDict,
     calls |-> <<>>, writes |-> <<>>, raised |-> ""]

\* What the loop body did for row id: the calls it made on the service in
\* order, the status updates among them with their payloads, what
\* analyze_with_bedrock returned ({} if not called) and the exception that
\* reached the except branch ("" if none).
Attempt(id, xml, ai_results, calls, writes) ==
    [id |-> id, prior |-> db[id].moderation_status, complaint_xml |-> xml,
     ai_results |-> ai_results, calls |-> calls, writes |-> writes, raised |-> ""]

\* The loop body ran to its end or to `continue`: no exception.
Completed(done, table, m, result) ==
    /\ db' = table
    /\ metrics' = m
    /\ analysis' = result
    /\ attempt' = done
    /\ idx' = idx + 1
    /\ UNCHANGED <<severity_threshold, pc, force_ai_analysis, batch_size,
                   complaints, response, context, event>>

\* faulty variant of Excepted: the exception ends the invocation, as if the
\* loop body had no try of its own
Excepted_AbortsBatch(done, m, result, error) ==
    /\ metrics' = m
    /\ analysis' = result
    /\ attempt' = [done EXCEPT !.raised = error]
    /\ response' = [statusCode |-> 500, partial_metrics |-> m]
    /\ pc' = "idle"
    /\ complaints' = <<>>
    /\ idx' = 1
    /\ UNCHANGED <<severity_threshold, db, force_ai_analysis, batch_size, context,
                   event>>

\* faulty variant of Excepted: the except branch marks the row
\* failed_processing, which no later run selects
Excepted_MarksFailed(done, m, result, error) ==
    \E retry_ok \in BOOLEAN :
        LET payload == RetryPayload(FetchedRow(done.id), error)
        IN  /\ db' = IF retry_ok
                     THEN update_moderation_status(db, done.id, "failed_processing",
                                                   payload)
                     ELSE db
            /\ metrics' = Inc(m, "error_count")
            /\ analysis' = result
            /\ attempt' =
                 [done EXCEPT
                    !.calls = Append(@, Call("update_moderation_status", retry_ok)),
                    !.writes = Append(@, Write("failed_processing", payload, retry_ok)),
                    !.raised = error]
            /\ idx' = idx + 1
            /\ UNCHANGED <<severity_threshold, pc, force_ai_analysis, batch_size,
                           complaints, response, context, event>>

\* faulty variant of Excepted: the retry update is issued a second time
\* after it failed
Excepted_WritesTwice(done, m, result, error) ==
    \E retry_ok \in BOOLEAN :
        LET payload == RetryPayload(FetchedRow(done.id), error)
        IN  /\ db' = IF retry_ok
                     THEN update_moderation_status(db, done.id, "retry", payload)
                     ELSE db
            /\ metrics' = Inc(m, "error_count")
            /\ analysis' = result
            /\ attempt' =
                 [done EXCEPT
                    !.calls = @ \o <<Call("update_moderation_status", FALSE),
                                     Call("update_moderation_status", retry_ok)>>,
                    !.writes = @ \o <<Write("retry", payload, FALSE),
                                      Write("retry", payload, retry_ok)>>,
                    !.raised = error]
            /\ idx' = idx + 1
            /\ UNCHANGED <<severity_threshold, pc, force_ai_analysis, batch_size,
                           complaints, response, context, event>>

\* The loop body raised `error`: the except branch counts the error and
\* tries the retry update, which commits or raises in its turn.
Excepted(done, m, result, error) ==
    \E retry_ok \in BOOLEAN :
        LET payload == RetryPayload(FetchedRow(done.id), error)
        IN  /\ db' = IF retry_ok
                     THEN update_moderation_status(db, done.id, "retry", payload)
                     ELSE db
            /\ metrics' = Inc(m, "error_count")
            /\ analysis' = result
            /\ attempt' =
                 [done EXCEPT
                    !.calls = Append(@, Call("update_moderation_status", retry_ok)),
                    !.writes = Append(@, Write("retry", payload, retry_ok)),
                    !.raised = error]
            /\ idx' = idx + 1
            /\ UNCHANGED <<severity_threshold, pc, force_ai_analysis, batch_size,
                           complaints, response, context, event>>

\* the methods of class ProductionModerationService; _ai_to_final_decision
\* is defined inside lambda_handler, after its return statements
ServiceMethods ==
    {"fetch_complaints_from_db", "xml_to_json_converter", "process_complaint_from_db",
     "comprehensive_profanity_analysis", "analyze_with_bedrock", "get_user_context",
     "enhanced_analysis", "update_moderation_status", "store_flagged_content",
     "send_notification"}

\* _ai_to_final_decision
ai_to_final_decision(ai_results) ==
    IF ~AiSucceeded(ai_results)
    THEN [should_flag |-> TRUE, severity_level |-> "HIGH", recommendation |-> "REVIEW",
          primary_method |-> "ai_error_fallback",
          error |-> Get(ai_results, "error", "AI analysis failed")]
    ELSE LET ai_data == Get(ai_results, "ai_analysis", EmptyDict)
         IN  [should_flag |->
                 Get(ai_data, "recommended_action", "APPROVE")
                     \in {"FLAG", "ESCALATE", "REVIEW"},
              severity_level |-> AiSeverity(ai_data),
              confidence |-> AiConfidence(ai_data),
              recommendation |-> Get(ai_data, "recommended_action", "APPROVE"),
              primary_method |-> "ai_only",
              ai_insights |-> "recorded"]

\* the rows the loop has still to process
InLoop == pc = "loop" /\ idx <= Len(complaints)

\* complaint_xml values of the rows
XmlValues ==
    {XmlNull, XmlMalformed, XmlDocument(0, 0, 0, 0), XmlDocument(0, 4, 0, 9),
     XmlDocument(0, 0, 0, 5)}

RowWith(id, xml) == SetKey(FetchedRow(id), "complaint_xml", xml)

\* the complaint_xml values for which `if not complaint_data` is not taken
UsableXml(id) ==
    {xml \in XmlValues : process_complaint_from_db(RowWith(id, xml)) # None}

FailedProcessingPayload ==
    [error |-> "Failed to convert XML to JSON or extract complaint text"]

\* faulty variant of StartupFailure: the failed start is counted as a
\* processing error
StartupFailure_CountsError ==
    /\ pc = "idle"
    /\ metrics' = Inc(ZeroMetrics, "error_count")
    /\ response' = [statusCode |-> 500,
                    partial_metrics |-> Inc(ZeroMetrics, "error_count")]
    /\ attempt' = NoAttempt
    /\ analysis' = EmptyDict
    /\ UNCHANGED <<severity_threshold, db, pc, force_ai_analysis, batch_size,
                   complaints, idx, context, event>>

\* ProductionModerationService() raises: the handler returns 500
StartupFailure ==
    /\ pc = "idle"
    /\ metrics' = ZeroMetrics
    /\ response' = [statusCode |-> 500, partial_metrics |-> ZeroMetrics]
    /\ attempt' = NoAttempt
    /\ analysis' = EmptyDict
    /\ UNCHANGED <<severity_threshold, db, pc, force_ai_analysis, batch_size,
                   complaints, idx, context, event>>

\* lines 897-929: the service is built, the parameters read, the rows fetched
StartRun ==
    /\ pc = "idle"
    /\ \E ev \in Events, fetch_fails \in BOOLEAN :
          /\ event' = ev
          /\ force_ai_analysis' = Get(ev, "force_ai_analysis", FALSE)
          /\ batch_size' = ValidBatchSize(ev)
          /\ complaints' = fetch_complaints_from_db(db, ValidBatchSize(ev),
                                Get(ev, "status_filter", "pending"), fetch_fails)
    /\ metrics' = ZeroMetrics
    /\ idx' = 1
    /\ pc' = "loop"
    /\ response' = EmptyDict
    /\ attempt' = NoAttempt
    /\ analysis' = EmptyDict
    /\ context' = "ample"
    /\ UNCHANGED <<severity_threshold, db>>

\* faulty variant of UnusableRecord: a row marked failed_processing is not
\* counted as an error
UnusableRecord_Uncounted ==
    /\ InLoop
    /\ \E xml \in XmlValues \ UsableXml(complaints[idx]), ok \in BOOLEAN :
          LET id == complaints[idx]
              done == Attempt(id, xml, EmptyDict,
                              <<Call("process_complaint_from_db", FALSE),
                                Call("update_moderation_status", ok)>>,
                              <<Write("failed_processing", FailedProcessingPayload, ok)>>)
          IN  /\ IF ok
                 THEN Completed(done,
                                update_moderation_status(db, id, "failed_processing",
                                                         FailedProcessingPayload),
                                metrics, EmptyDict)
                 ELSE Excepted(done, metrics, EmptyDict,
                               "update_moderation_status failed")

\* lines 935-947: no complaint data, the row is marked failed_processing
UnusableRecord ==
    /\ InLoop
    /\ \E xml \in XmlValues \ UsableXml(complaints[idx]), ok \in BOOLEAN :
          LET id == complaints[idx]
              done == Attempt(id, xml, EmptyDict,
                              <<Call("process_complaint_from_db", FALSE),
                                Call("update_moderation_status", ok)>>,
                              <<Write("failed_processing", FailedProcessingPayload, ok)>>)
          IN  /\ IF ok
                 THEN Completed(done,
                                update_moderation_status(db, id, "failed_processing",
                                                         FailedProcessingPayload),
                                Inc(metrics, "error_count"), EmptyDict)
                 ELSE Excepted(done, metrics, EmptyDict,
                               "update_moderation_status failed")

\* faulty variant of HandleFlagged: the notification is sent before the
\* content is archived
HandleFlagged_NotifyFirst(written, table, m, result, archived, notified) ==
    Completed([written EXCEPT !.calls =
                  @ \o <<Call("send_notification", notified),
                         Call("store_flagged_content", archived)>>],
              table, Inc(Inc(m, "flagged_count"), "processed_count"), result)

\* faulty variant of HandleFlagged: a failed archive write counts the record
\* as an error and skips the notification
HandleFlagged_ArchiveFailureIsError(written, table, m, result, archived, notified) ==
    IF archived
    THEN Completed([written EXCEPT !.calls =
                       @ \o <<Call("store_flagged_content", archived),
                              Call("send_notification", notified)>>],
                   table, Inc(Inc(m, "flagged_count"), "processed_count"), result)
    ELSE Completed([written EXCEPT !.calls =
                       Append(@, Call("store_flagged_content", archived))],
                   table, Inc(m, "error_count"), result)

\* lines 991-1001 for a flagged record: store_flagged_content, then
\* send_notification with its result; both catch their own exceptions
HandleFlagged(written, table, m, result, archived, notified) ==
    Completed([written EXCEPT !.calls =
                  @ \o <<Call("store_flagged_content", archived),
                         Call("send_notification", notified)>>],
              table, Inc(Inc(m, "flagged_count"), "processed_count"), result)

\* lines 980-1001: the decision is written, flagged content archived and
\* notified, the record counted
Persist(id, xml, ai_results, calls, m, result) ==
    LET final_decision == Get(result, "final_decision", EmptyDict)
        flag == Get(final_decision, "should_flag", FALSE)
        status == IF flag THEN "flagged" ELSE "approved"
    IN  \E ok \in BOOLEAN :
          LET written == Attempt(id, xml, ai_results,
                                 Append(calls, Call("update_moderation_status", ok)),
                                 <<Write(status, result, ok)>>)
          IN  IF ~ok
              THEN Excepted(written, m, result, "update_moderation_status failed")
              ELSE IF flag
              THEN \E archived \in BOOLEAN, notified \in BOOLEAN :
                     HandleFlagged(written,
                                   update_moderation_status(db, id, status, result),
                                   m, result, archived, notified)
              ELSE Completed(written,
                             update_moderation_status(db, id, status, result),
                             Inc(m, "processed_count"), result)

\* the calls that precede the analysis of a row with usable text
Prepared ==
    <<Call("process_complaint_from_db", TRUE), Call("get_user_context", TRUE)>>

\* secondary-analyzer outcomes and signal reports of the rows of a batch
BatchBedrock ==
    {BedrockFailure,
     BedrockSuccess(AiData(AiKeys, "LOW", "APPROVE", [numeric |-> TRUE, value |-> 540])),
     BedrockSuccess(AiData(AiKeys, "HIGH", "FLAG", [numeric |-> TRUE, value |-> 540])),
     BedrockSuccess(AiData(AiKeys, "CRITICAL", "REVIEW", [numeric |-> FALSE, value |-> 0]))}

BatchReport(prob, has, words, compound) ==
    [ml_profanity_check |-> ml_profanity_analysis(prob),
     dictionary_profanity |-> dictionary_profanity_analysis(has, words),
     sentiment_analysis |-> sentiment_analysis(compound),
     text_stats |-> analyze_text_stats(0, 0)]

BatchReports ==
    {BatchReport(10, FALSE, 0, 61), BatchReport(10, FALSE, 0, -61),
     BatchReport(75, FALSE, 0, 0),
     [ml_profanity_check |-> ErrorReport("ml_based"),
      dictionary_profanity |-> ErrorReport("dictionary_based"),
      sentiment_analysis |-> ErrorReport("nltk_vader"),
      text_stats |-> EmptyDict]}

\* lines 953-966: forced AI analysis
ForcedRecord ==
    /\ InLoop /\ force_ai_analysis
    /\ \E xml \in UsableXml(complaints[idx]), bedrock \in BatchBedrock :
          LET id == complaints[idx]
              calls == Append(Prepared,
                              Call("analyze_with_bedrock", AiSucceeded(bedrock)))
          IN  /\ IF "_ai_to_final_decision" \in ServiceMethods
                 THEN Persist(id, xml, bedrock, calls,
                              IF AiSucceeded(bedrock) THEN Inc(metrics, "ai_used_count")
                              ELSE metrics,
                              [library_analysis |-> EmptyDict, ai_analysis |-> bedrock,
                               final_decision |-> ai_to_final_decision(bedrock)])
                 ELSE Excepted(Attempt(id, xml, bedrock, calls, <<>>), metrics,
                               EmptyDict, "AttributeError")

\* the outcomes of analyze_with_bedrock that matter: one when it is not called
BedrockFor(reports, threshold, fails, outcomes) ==
    IF Get(calculate_overall_assessment(reports, threshold, fails),
           "requires_ai_analysis", FALSE)
    THEN outcomes ELSE {BedrockFailure}

\* the calls enhanced_analysis makes
AnalysisCalls(result) ==
    <<Call("comprehensive_profanity_analysis", TRUE)>>
        \o (IF result.ai_analysis = EmptyDict THEN <<>>
            ELSE <<Call("analyze_with_bedrock", AiSucceeded(result.ai_analysis))>>)

\* lines 967-978: library analysis with selective AI
AnalysedRecord ==
    /\ InLoop /\ ~force_ai_analysis
    /\ \E xml \in UsableXml(complaints[idx]), reports \in BatchReports,
          fails \in BOOLEAN :
         \E bedrock \in BedrockFor(reports, severity_threshold, fails, BatchBedrock) :
          LET id == complaints[idx]
              result == enhanced_analysis(reports, severity_threshold, fails, bedrock)
          IN  /\ Persist(id, xml, result.ai_analysis, Prepared \o AnalysisCalls(result),
                         IF AiSucceeded(result.ai_analysis)
                         THEN Inc(metrics, "ai_used_count")
                         ELSE Inc(metrics, "library_only_count"),
                         result)

\* lines 1021-1063: the loop is over, the summary is returned and the
\* handler's locals are gone
Finish ==
    /\ pc = "loop" /\ idx > Len(complaints)
    /\ response' = [statusCode |-> 200,
                    total_complaints_fetched |-> Len(complaints),
                    metrics |-> metrics]
    /\ pc' = "idle"
    /\ complaints' = <<>>
    /\ idx' = 1
    /\ force_ai_analysis' = FALSE
    /\ batch_size' = DefaultBatchSize
    /\ attempt' = NoAttempt
    /\ analysis' = EmptyDict
    /\ context' = "ample"
    /\ event' = EmptyDict
    /\ UNCHANGED <<severity_threshold, db, metrics>>

\* The platform clock runs while the handler is in its loop: the time left
\* to the invocation gets close to the deadline.  lambda_handler never reads
\* its context argument, so no action of the handler depends on it.
DeadlineApproaches ==
    /\ pc = "loop" /\ context = "ample"
    /\ context' = "expiring"
    /\ UNCHANGED <<severity_threshold, analysis, db, pc, force_ai_analysis,
                   batch_size, complaints, idx, metrics, response, attempt, event>>

Init ==
    /\ severity_threshold = DefaultSeverityThreshold
    /\ analysis = EmptyDict
    /\ db = [id \in Ids |-> NewRow]
    /\ pc = "idle"
    /\ force_ai_analysis = FALSE
    /\ batch_size = DefaultBatchSize
    /\ complaints = <<>>
    /\ idx = 1
    /\ metrics = ZeroMetrics
    /\ response = EmptyDict
    /\ attempt = NoAttempt
    /\ context = "ample"
    /\ event = EmptyDict

Next ==
    \/ StartupFailure
    \/ StartRun
    \/ UnusableRecord
    \/ ForcedRecord
    \/ AnalysedRecord
    \/ DeadlineApproaches
    \/ Finish

Spec == Init /\ [][Next]_vars

----------------------------------------------------------------------------
(* The analysis alone, over the full grid of signal reports and            *)
(* secondary-analyzer outcomes.                                            *)

Analyse ==
    /\ analysis = EmptyDict
    /\ \E reports \in Reports, fails \in BOOLEAN :
         \E bedrock \in BedrockFor(reports, severity_threshold, fails, BedrockOutcomes) :
            analysis' = enhanced_analysis(reports, severity_threshold, fails, bedrock)
    /\ UNCHANGED <<severity_threshold, batchVars>>

InitAnalysis ==
    /\ severity_threshold \in SeverityThresholds
    /\ analysis = EmptyDict
    /\ db = [id \in Ids |-> NewRow]
    /\ pc = "idle"
    /\ force_ai_analysis = FALSE
    /\ batch_size = DefaultBatchSize
    /\ complaints = <<>>
    /\ idx = 1
    /\ metrics = ZeroMetrics
    /\ response = EmptyDict
    /\ attempt = NoAttempt
    /\ context = "ample"
    /\ event = EmptyDict

NextAnalysis == Analyse

SpecAnalysis == InitAnalysis /\ [][NextAnalysis]_vars

----------------------------------------------------------------------------
(* Properties.                                                             *)

\* what the properties read of the latest analysis and loop body
Analysed == analysis # EmptyDict
Assessment == analysis.library_analysis.overall_assessment
FinalDecision == analysis.final_decision
AiCalled == analysis.ai_analysis # EmptyDict
Attempted == attempt.id # 0
FirstWrite == attempt.writes[1]
LastWrite == attempt.writes[Len(attempt.writes)]
Called(op) == \E i \in 1..Len(attempt.calls) : attempt.calls[i].op = op
Row == db[attempt.id]

\* LOW < MEDIUM < HIGH < CRITICAL
SeverityOrder(severity) ==
    CASE severity = "LOW" -> 1
      [] severity = "MEDIUM" -> 2
      [] severity = "HIGH" -> 3
      [] severity = "CRITICAL" -> 4

\* C1: the severity rank of the final decision of enhanced_analysis is never
\* below the rank of the aggregate assessment, whatever the secondary
\* analysis returned (success with any urgency, failure, a merge that raises).
C1_MergeMonotonic ==
    Analysed =>
        SeverityOrder(FinalDecision.severity_level)
            >= SeverityOrder(Assessment.severity_level)

\* C1 witness: the secondary analysis succeeded with urgency LOW on an
\* assessment of severity HIGH, and the decision stays HIGH
C1_Witness ==
    /\ Analysed /\ AiCalled /\ AiSucceeded(analysis.ai_analysis)
    /\ Get(analysis.ai_analysis.ai_analysis, "urgency", "") = "LOW"
    /\ Assessment.severity_level = "HIGH"
    /\ FinalDecision.severity_level = "HIGH"

\* C2 as amended: an exception in the loop body of one record does not end
\* the loop: the except branch issues one retry update that carries the
\* error, the row is in status retry when that update commits and keeps its
\* status when it fails too, and the loop goes on with the next fetched row;
\* a run returns its summary only when every fetched row was processed.
C2_FailureIsolation ==
    /\ (Attempted /\ attempt.raised # "") =>
          /\ pc = "loop"
          /\ idx <= Len(complaints) + 1
          /\ complaints[idx - 1] = attempt.id
          /\ LastWrite.status = "retry"
          /\ LastWrite.result.error = attempt.raised
          /\ Row.moderation_status = IF LastWrite.ok THEN "retry" ELSE attempt.prior
          /\ LastWrite.ok => Row.moderation_result.error = attempt.raised
    /\ (pc = "idle" /\ Get(response, "statusCode", 0) = 200) =>
          response.metrics.processed_count + response.metrics.error_count
              = response.total_complaints_fetched

\* C2 witness: the first of two fetched rows raised, its retry update
\* committed, and the second row is next
C2_Witness ==
    /\ Attempted /\ attempt.raised # ""
    /\ Len(complaints) = 2 /\ idx = 2
    /\ Row.moderation_status = "retry"

\* C2 as stated: the failing record is always moved to status retry with the
\* error captured in its result.
C2_Original ==
    (Attempted /\ attempt.raised # "") =>
        /\ Row.moderation_status = "retry"
        /\ Row.moderation_result.error = attempt.raised

\* C3: a record that failed before (it is in status retry) and fails again
\* gets a retry_count above the 1 of its first failure.
C3_RetryCountIncrements ==
    (Attempted /\ attempt.raised # "" /\ attempt.prior = "retry") =>
        LastWrite.result.retry_count >= 2

TerminalStatuses == {"flagged", "approved", "failed_processing"}

\* C4: a row written flagged, approved or failed_processing is never written
\* again, and a run selects only rows whose moderation status is NULL or
\* retry.
C4_OnlyPendingOrRetry ==
    [][/\ \A id \in Ids :
            db[id].moderation_status \in TerminalStatuses => db'[id] = db[id]
       /\ (pc = "idle" /\ pc' = "loop") =>
            \A i \in 1..Len(complaints') :
                db[complaints'[i]].moderation_status \in {"NULL", "retry"}]_vars

\* C4 witness: a row in status retry was selected and processed again while
\* another row is terminal
C4_Witness ==
    /\ Attempted /\ attempt.prior = "retry"
    /\ \E id \in Ids : db[id].moderation_status \in TerminalStatuses

\* the text the extraction finds in a document: the first non-empty element
ExtractedLength(xml) ==
    IF xml.complaint_text > 0 THEN xml.complaint_text
    ELSE IF xml.description > 0 THEN xml.description
    ELSE IF xml.message > 0 THEN xml.message
    ELSE xml.subject

NoUsableContent(xml) == xml.kind # "document" \/ ExtractedLength(xml) < 5

\* C5: a record is sent to failed_processing exactly when its extraction
\* yields no usable content, as the first update of the attempt, and then
\* neither the user context, the aggregator nor the secondary analyzer is
\* called; the row is failed_processing when that update commits.
C5_ExtractionFailure ==
    Attempted =>
        /\ NoUsableContent(attempt.complaint_xml) <=>
              FirstWrite.status = "failed_processing"
        /\ \A i \in 2..Len(attempt.writes) :
              attempt.writes[i].status # "failed_processing"
        /\ NoUsableContent(attempt.complaint_xml) =>
              /\ ~Called("get_user_context")
              /\ ~Called("comprehensive_profanity_analysis")
              /\ ~Called("analyze_with_bedrock")
              /\ FirstWrite.ok => Row.moderation_status = "failed_processing"
        /\ Row.moderation_status = "failed_processing" =>
              NoUsableContent(attempt.complaint_xml)

\* C5 witness: a document whose text has 4 characters was written
\* failed_processing
C5_Witness ==
    /\ Attempted
    /\ attempt.complaint_xml.kind = "document"
    /\ ExtractedLength(attempt.complaint_xml) = 4
    /\ Row.moderation_status = "failed_processing"

\* C6: without forcing, the decision is tagged libraries_only when the
\* secondary analyzer was not called or failed, and combined_analysis only
\* when it succeeded.
C6_Provenance ==
    Analysed =>
        /\ ~AiSucceeded(analysis.ai_analysis) =>
              Get(FinalDecision, "primary_method", "") = "libraries_only"
        /\ Get(FinalDecision, "primary_method", "") = "combined_analysis" =>
              AiSucceeded(analysis.ai_analysis)

\* the secondary analyzer was called for this record and failed
EscalationFailed ==
    Attempted /\ Analysed /\ ~force_ai_analysis /\ AiCalled
        /\ ~AiSucceeded(analysis.ai_analysis)

\* C7: when the escalated secondary call fails, the final decision carries
\* the should_flag, severity, recommendation and confidence of the aggregate
\* assessment, the pipeline goes on to persist that decision, and the record
\* ends in retry only if that update itself fails.
C7_EscalationFailureKeepsAssessment ==
    EscalationFailed =>
        /\ FinalDecision.should_flag = Assessment.should_flag
        /\ FinalDecision.severity_level = Assessment.severity_level
        /\ FinalDecision.recommendation = Assessment.recommendation
        /\ FinalDecision.confidence = Assessment.confidence_score
        /\ FirstWrite.status =
              (IF Assessment.should_flag THEN "flagged" ELSE "approved")
        /\ FirstWrite.ok =>
              /\ attempt.raised = ""
              /\ Row.moderation_status = FirstWrite.status

\* C7 witness: a flagged assessment whose secondary call failed was
\* persisted as flagged
C7_Witness ==
    /\ EscalationFailed
    /\ Assessment.should_flag
    /\ Row.moderation_status = "flagged"

\* C8: in forced mode every record with usable text gets a persisted
\* decision: ai_only, flagged exactly for FLAG, ESCALATE or REVIEW, when the
\* call succeeds; ai_error_fallback, HIGH and flagged when it fails.
C8_ForcedMode ==
    (Attempted /\ force_ai_analysis /\ Called("analyze_with_bedrock")) =>
        IF AiSucceeded(attempt.ai_results)
        THEN /\ FirstWrite.result.primary_method = "ai_only"
             /\ FirstWrite.status =
                   (IF Get(attempt.ai_results.ai_analysis, "recommended_action", "APPROVE")
                          \in {"FLAG", "ESCALATE", "REVIEW"}
                    THEN "flagged" ELSE "approved")
        ELSE /\ FirstWrite.result.primary_method = "ai_error_fallback"
             /\ FirstWrite.severity_level = "HIGH"
             /\ FirstWrite.status = "flagged"

\* the aggregation step failed for this record
AggregationFailed == Attempted /\ Analysed /\ "error" \in DOMAIN Assessment

\* C9: when the aggregation fails, the assessment is should_flag, HIGH,
\* REVIEW, the update issued is flagged with severity HIGH, the row is
\* flagged with severity HIGH when it commits, and is never approved.
C9_AggregatorFailSafe ==
    AggregationFailed =>
        /\ Assessment.should_flag
        /\ Assessment.severity_level = "HIGH"
        /\ Assessment.recommendation = "REVIEW"
        /\ FirstWrite.status = "flagged"
        /\ FirstWrite.severity_level = "HIGH"
        /\ Row.moderation_status # "approved"
        /\ FirstWrite.ok =>
              Row.moderation_status = "flagged" /\ Row.severity_level = "HIGH"

\* C9 witness: the aggregation failed and the row was written flagged, HIGH
C9_Witness ==
    /\ AggregationFailed
    /\ Row.moderation_status = "flagged"
    /\ Row.severity_level = "HIGH"

\* C10: without forcing, the secondary analyzer is called exactly when the
\* assessment has confidence above 0.7, or two or more triggered methods, or
\* confidence from 0.3 to 0.7, or STRONG_NEGATIVE_SENTIMENT as its only
\* triggered method.
C10_EscalationPolicy ==
    Analysed =>
        LET confidence == Get(Assessment, "confidence_score", 0)
            methods == Get(Assessment, "flagged_by_methods", <<>>)
        IN  AiCalled <=>
                \/ confidence * 10 > 7 * ConfidenceOne
                \/ Len(methods) >= 2
                \/ 3 * ConfidenceOne <= confidence * 10
                     /\ confidence * 10 <= 7 * ConfidenceOne
                \/ methods = <<"STRONG_NEGATIVE_SENTIMENT">>

\* C10 witness: STRONG_NEGATIVE_SENTIMENT alone, confidence below 0.3, and
\* the secondary analyzer was called
C10_Witness ==
    /\ Analysed /\ AiCalled
    /\ Assessment.flagged_by_methods = <<"STRONG_NEGATIVE_SENTIMENT">>
    /\ Assessment.confidence_score * 10 < 3 * ConfidenceOne

\* the aggregation of the latest analysis ran to its end
Scored == Analysed /\ "error" \notin DOMAIN Assessment
LibraryAnalysis == analysis.library_analysis

\* C11 as amended: should_flag = (total_score >= severity_threshold); when
\* should_flag holds, total_score >= 5 gives CRITICAL/ESCALATE, otherwise
\* total_score >= 3.5 gives HIGH/FLAG, otherwise MEDIUM/REVIEW; when it does
\* not hold the result is LOW/APPROVE whatever the score.
C11_SeverityMapping ==
    Scored =>
        LET total_score == TotalScore(LibraryAnalysis)
            flag == total_score >= severity_threshold * 100
        IN  /\ Assessment.should_flag = flag
            /\ <<Assessment.severity_level, Assessment.recommendation>> =
                  IF ~flag THEN <<"LOW", "APPROVE">>
                  ELSE IF total_score >= 500 THEN <<"CRITICAL", "ESCALATE">>
                  ELSE IF total_score >= 350 THEN <<"HIGH", "FLAG">>
                  ELSE <<"MEDIUM", "REVIEW">>

\* C11 witness: threshold 6, a total score from 5 to 6, severity LOW
C11_Witness ==
    /\ Scored /\ severity_threshold = 6
    /\ TotalScore(LibraryAnalysis) >= 500
    /\ Assessment.severity_level = "LOW"
    /\ Assessment.recommendation = "APPROVE"

\* C11 as stated: for every threshold, total_score >= 5 gives
\* CRITICAL/ESCALATE, otherwise total_score >= 3.5 gives HIGH/FLAG, otherwise
\* should_flag gives MEDIUM/REVIEW, otherwise LOW/APPROVE.
C11_Original ==
    Scored =>
        LET total_score == TotalScore(LibraryAnalysis)
            flag == total_score >= severity_threshold * 100
        IN  /\ Assessment.should_flag = flag
            /\ <<Assessment.severity_level, Assessment.recommendation>> =
                  IF total_score >= 500 THEN <<"CRITICAL", "ESCALATE">>
                  ELSE IF total_score >= 350 THEN <<"HIGH", "FLAG">>
                  ELSE IF flag THEN <<"MEDIUM", "REVIEW">>
                  ELSE <<"LOW", "APPROVE">>

\* the contributions as the scoring rule states them, from the reports
ErrorTagged(report) == "error" \in DOMAIN report
RuleMl(report) ==
    IF ~ErrorTagged(report) /\ "is_profane" \in DOMAIN report /\ report.is_profane
    THEN report.profanity_probability * 4 ELSE 0
RuleDictionary(report) ==
    IF ~ErrorTagged(report) /\ "has_profanity" \in DOMAIN report
          /\ report.has_profanity
    THEN (IF report.word_count * 150 <= 300 THEN report.word_count * 150 ELSE 300)
    ELSE 0
RuleSentiment(report) ==
    IF ~ErrorTagged(report) /\ "sentiment" \in DOMAIN report
          /\ report.sentiment = "NEGATIVE"
    THEN (IF report.intensity > 60 THEN report.intensity * 2
          ELSE IF report.intensity > 30 THEN report.intensity ELSE 0)
    ELSE 0
RuleCaps(report) ==
    IF "uppercase_ratio" \in DOMAIN report /\ report.uppercase_ratio > 30
    THEN 50 ELSE 0
RuleExclamations(report) ==
    IF "exclamation_count" \in DOMAIN report /\ report.exclamation_count > 3
    THEN 30 ELSE 0
RuleScore(library) ==
    RuleMl(library.ml_profanity_check) + RuleDictionary(library.dictionary_profanity)
        + RuleSentiment(library.sentiment_analysis) + RuleCaps(library.text_stats)
        + RuleExclamations(library.text_stats)
RuleTags(library) ==
    (IF ~ErrorTagged(library.ml_profanity_check)
          /\ Get(library.ml_profanity_check, "is_profane", FALSE)
     THEN {"ML_PROFANITY"} ELSE {})
    \cup (IF ~ErrorTagged(library.dictionary_profanity)
              /\ Get(library.dictionary_profanity, "has_profanity", FALSE)
          THEN {"DICTIONARY_PROFANITY"} ELSE {})
    \cup (IF RuleSentiment(library.sentiment_analysis) = 0 THEN {}
          ELSE IF library.sentiment_analysis.intensity > 60
          THEN {"STRONG_NEGATIVE_SENTIMENT"}
          ELSE {"MODERATE_NEGATIVE_SENTIMENT"})
    \cup (IF RuleCaps(library.text_stats) > 0 THEN {"EXCESSIVE_CAPS"} ELSE {})

\* C12: the total score is the sum of the contributions of the rules, the
\* triggered methods are exactly the tags of the rules that fired, each
\* once, and an error-tagged or empty report adds nothing; the flag and the
\* confidence follow that sum.
C12_ScoringRule ==
    Scored =>
        LET methods == Assessment.flagged_by_methods
        IN  /\ TotalScore(LibraryAnalysis) = RuleScore(LibraryAnalysis)
            /\ Assessment.should_flag =
                  (RuleScore(LibraryAnalysis) >= severity_threshold * 100)
            /\ RuleScore(LibraryAnalysis) < ConfidenceOne =>
                  Assessment.confidence_score = RuleScore(LibraryAnalysis)
            /\ {methods[i] : i \in 1..Len(methods)} = RuleTags(LibraryAnalysis)
            /\ Len(methods) = Cardinality(RuleTags(LibraryAnalysis))
            /\ \A name \in {"ml_profanity_check", "dictionary_profanity",
                            "sentiment_analysis"} :
                  ErrorTagged(LibraryAnalysis[name]) =>
                      /\ name = "ml_profanity_check" => MlScore(LibraryAnalysis) = 0
                      /\ name = "dictionary_profanity" =>
                            DictScore(LibraryAnalysis) = 0
                      /\ name = "sentiment_analysis" =>
                            SentimentScore(LibraryAnalysis) = 0

\* C12 witness: three dictionary words (the cap applies), a strong negative
\* sentiment, more than 3 exclamation marks and an error-tagged ML report
C12_Witness ==
    /\ Scored
    /\ ErrorTagged(LibraryAnalysis.ml_profanity_check)
    /\ Get(LibraryAnalysis.dictionary_profanity, "word_count", 0) = 3
    /\ Get(LibraryAnalysis.dictionary_profanity, "has_profanity", FALSE)
    /\ Get(LibraryAnalysis.sentiment_analysis, "compound_score", 0) = -100
    /\ Get(LibraryAnalysis.text_stats, "exclamation_count", 0) = 4
    /\ Assessment.flagged_by_methods =
          <<"DICTIONARY_PROFANITY", "STRONG_NEGATIVE_SENTIMENT">>
    /\ Assessment.confidence_score = 530

\* C13: the confidence of the assessment is min(total_score / 6, 1) and lies
\* in [0, 1], for every combination of signal reports.
C13_ConfidenceBounded ==
    Scored =>
        LET confidence == Assessment.confidence_score
            total_score == RuleScore(LibraryAnalysis)
        IN  /\ confidence * 6 * 100 =
                  (IF total_score <= 6 * 100 THEN total_score ELSE 6 * 100)
                      * ConfidenceOne
            /\ 0 <= confidence
            /\ confidence <= ConfidenceOne

\* C13 witness: a total score above 6 with confidence 1.0
C13_Witness ==
    /\ Scored
    /\ RuleScore(LibraryAnalysis) > 600
    /\ Assessment.confidence_score = ConfidenceOne

SideEffects == {"store_flagged_content", "send_notification"}

\* the positions in the calls of an attempt at which op was called
CallsOf(a, op) == {i \in 1..Len(a.calls) : a.calls[i].op = op}

\* C14: within an attempt the archive write and the notification come only
\* after a status update that committed with status flagged, the archive
\* attempt comes before the notification, and neither is made for a record
\* whose attempt ends approved, failed_processing or in the retry branch.
C14_SideEffectOrder ==
    Attempted =>
        /\ \A i \in CallsOf(attempt, "store_flagged_content")
                       \cup CallsOf(attempt, "send_notification") :
              /\ \E j \in CallsOf(attempt, "update_moderation_status") :
                    j < i /\ attempt.calls[j].ok
              /\ FirstWrite.status = "flagged" /\ FirstWrite.ok
              /\ Row.moderation_status = "flagged"
        /\ \A i \in CallsOf(attempt, "send_notification") :
              \E j \in CallsOf(attempt, "store_flagged_content") : j < i
        /\ (\/ attempt.raised # ""
            \/ Row.moderation_status \in {"approved", "failed_processing", "retry"}) =>
              \A i \in 1..Len(attempt.calls) : attempt.calls[i].op \notin SideEffects

\* C14 witness: a flagged record was archived and notified after its update
C14_Witness ==
    /\ Attempted
    /\ Row.moderation_status = "flagged"
    /\ CallsOf(attempt, "update_moderation_status") # {}
    /\ CallsOf(attempt, "store_flagged_content") # {}
    /\ CallsOf(attempt, "send_notification") # {}

\* an archive write or a notification of the attempt failed
SideEffectFailed(a) ==
    \E i \in 1..Len(a.calls) : a.calls[i].op \in SideEffects /\ ~a.calls[i].ok

\* C15: the loop body of a flagged record whose archive write or
\* notification fails still leaves the row flagged, counts the record in
\* processed_count and flagged_count and not in error_count, writes no retry
\* update, and attempts the notification also after a failed archive write.
C15_BestEffortSideEffects ==
    [][(idx' = idx + 1 /\ SideEffectFailed(attempt')) =>
          /\ db'[attempt'.id].moderation_status = "flagged"
          /\ attempt'.raised = ""
          /\ \A i \in 1..Len(attempt'.writes) : attempt'.writes[i].status # "retry"
          /\ metrics'.processed_count = metrics.processed_count + 1
          /\ metrics'.flagged_count = metrics.flagged_count + 1
          /\ metrics'.error_count = metrics.error_count
          /\ CallsOf(attempt', "send_notification") # {}]_vars

\* C15 witness: the archive write failed, the notification was attempted
\* and failed too, and the row is flagged
C15_Witness ==
    /\ Attempted
    /\ \E i \in CallsOf(attempt, "store_flagged_content") : ~attempt.calls[i].ok
    /\ \E i \in CallsOf(attempt, "send_notification") : ~attempt.calls[i].ok
    /\ Row.moderation_status = "flagged"
    /\ metrics.flagged_count >= 1

\* the update that carries the decision of the attempt (flagged or
\* approved) was issued and failed
DecisionWriteFailed(a) ==
    /\ a.id # 0 /\ Len(a.writes) >= 1
    /\ a.writes[1].status \in {"flagged", "approved"}
    /\ ~a.writes[1].ok

\* C16 as amended: when the update that carries a record's decision fails,
\* the except branch issues the retry update: the stored status is retry when
\* that update commits and is the status before the attempt when it fails
\* too; either way the moderation status is NULL or retry, so the row stays
\* selectable, and a run that fetches rows takes every such row up to its
\* batch size.
C16_PersistenceFailure ==
    [][/\ DecisionWriteFailed(attempt') =>
            /\ Len(attempt'.writes) = 2
            /\ attempt'.writes[2].status = "retry"
            /\ db'[attempt'.id].moderation_status =
                  (IF attempt'.writes[2].ok THEN "retry" ELSE attempt'.prior)
            /\ db'[attempt'.id].moderation_status \in {"NULL", "retry"}
            /\ \A id \in Ids \ {attempt'.id} : db'[id] = db[id]
       /\ (pc = "idle" /\ pc' = "loop" /\ complaints' # <<>>) =>
            \A id \in Ids :
                db[id].moderation_status \in {"NULL", "retry"} =>
                    \/ \E i \in 1..Len(complaints') : complaints'[i] = id
                    \/ Len(complaints') = batch_size']_vars

\* C16 witness: the decision update of a new row failed and the retry
\* update committed
C16_Witness ==
    /\ DecisionWriteFailed(attempt)
    /\ attempt.prior = "NULL"
    /\ LastWrite.ok
    /\ Row.moderation_status = "retry"

\* C16 as stated: when the update that carries a record's decision fails,
\* the stored status equals the status before the attempt.
C16_Original ==
    DecisionWriteFailed(attempt) => Row.moderation_status = attempt.prior

\* C17 as amended: every attempt issues one status update, and a second one
\* only as the retry update after the first one failed; at most one update
\* of an attempt commits.
C17_WritesPerAttempt ==
    Attempted =>
        /\ Len(attempt.writes) \in {1, 2}
        /\ Cardinality(CallsOf(attempt, "update_moderation_status"))
              = Len(attempt.writes)
        /\ Len(attempt.writes) = 2 =>
              /\ ~attempt.writes[1].ok
              /\ attempt.writes[1].status # "retry"
              /\ attempt.writes[2].status = "retry"
        /\ Cardinality({i \in 1..Len(attempt.writes) : attempt.writes[i].ok}) <= 1

\* C17 witness: two updates were issued for a record and neither committed
C17_Witness ==
    /\ Attempted
    /\ Len(attempt.writes) = 2
    /\ ~attempt.writes[1].ok /\ ~attempt.writes[2].ok
    /\ Row.moderation_status = attempt.prior

\* C17 as stated: exactly one status update is issued per attempt.
C17_Original == Attempted => Len(attempt.writes) = 1

\* C18: once the time budget of the invocation is about to expire, the loop
\* starts the pipeline of no further fetched record: its next step is the
\* return of the summary.
C18_DeadlineHandling ==
    [][(pc = "loop" /\ context = "expiring") =>
          /\ idx' = idx
          /\ db' = db
          /\ pc' = "idle"
          /\ Get(response', "statusCode", 0) = 200]_vars

\* every signal extractor of the latest analysis returned an error-tagged
\* report (and the text statistics are empty)
AllExtractorsFailed ==
    /\ Attempted /\ Analysed /\ ~force_ai_analysis
    /\ ErrorTagged(LibraryAnalysis.ml_profanity_check)
    /\ ErrorTagged(LibraryAnalysis.dictionary_profanity)
    /\ ErrorTagged(LibraryAnalysis.sentiment_analysis)
    /\ LibraryAnalysis.text_stats = EmptyDict

\* C19: when every signal extractor failed for a record, the decision
\* produced flags the record: the update issued is flagged, and the row is
\* not approved with severity LOW.
C19_NoSilentApproval ==
    AllExtractorsFailed =>
        /\ FinalDecision.should_flag
        /\ FirstWrite.status = "flagged"
        /\ ~(Row.moderation_status = "approved" /\ Row.severity_level = "LOW")

\* C20: a step that returns the failure response happens before anything is
\* fetched or written: no row changes, no record is fetched or attempted,
\* the handler is not in its loop, and the partial metrics of the response
\* are all zero.
C20_StartupFailure ==
    [][Get(response', "statusCode", 0) = 500 =>
          /\ db' = db
          /\ pc = "idle" /\ pc' = "idle"
          /\ complaints' = <<>>
          /\ attempt' = NoAttempt
          /\ \A counter \in DOMAIN ZeroMetrics :
                response'.partial_metrics[counter] = 0]_vars

\* C20 witness: the failure response of a run that follows a run which
\* wrote a row
C20_Witness ==
    /\ Get(response, "statusCode", 0) = 500
    /\ pc = "idle"
    /\ \E id \in Ids : db[id].moderation_status # "NULL"
    /\ response.partial_metrics = ZeroMetrics

\* C21: the limit of the fetch of a run is min(batch_size, 200) for the
\* batch_size of its event, 50 when the event has none, and the run fetches
\* no more rows than that limit, so never more than 200.
C21_BatchSizeClamp ==
    [][(pc = "idle" /\ pc' = "loop") =>
          LET requested == IF "batch_size" \in DOMAIN event'
                           THEN event'.batch_size ELSE 50
          IN  /\ batch_size' = (IF requested <= 200 THEN requested ELSE 200)
              /\ Len(complaints') <= batch_size'
              /\ Len(complaints') <= 200]_vars

\* C21 witness: a run whose event asks for 1000 rows fetches with limit 200
C21_Witness ==
    /\ pc = "loop"
    /\ Get(event, "batch_size", 0) = 1000
    /\ batch_size = 200
    /\ complaints # <<>>

\* C22: every update that commits with severity HIGH or CRITICAL has status
\* flagged; a decision whose severity the merge raised above an unflagged
\* assessment is not written approved.
C22_StatusAgreesWithSeverity ==
    Attempted =>
        \A i \in 1..Len(attempt.writes) :
            (attempt.writes[i].ok
                /\ attempt.writes[i].severity_level \in {"HIGH", "CRITICAL"}) =>
                /\ attempt.writes[i].status = "flagged"
                /\ Row.moderation_status # "approved"

\* C23: when a run without forcing returns its summary, ai_used_count +
\* library_only_count = processed_count, and the two rates derived from them
\* are at most 100 percent.
C23_MetricsPartition ==
    [][(pc = "loop" /\ pc' = "idle" /\ ~force_ai_analysis
            /\ Get(response', "statusCode", 0) = 200) =>
          LET m == response'.metrics
          IN  /\ m.ai_used_count + m.library_only_count = m.processed_count
              /\ m.library_only_count <= m.processed_count
              /\ m.ai_used_count <= m.processed_count]_vars

\* C24: every step of the loop adds one to exactly one of processed_count
\* and error_count; when the run returns its summary, processed_count +
\* error_count is the number of fetched rows and flagged_count <=
\* processed_count.
C24_MetricsAccounting ==
    [][/\ (pc = "loop" /\ idx' = idx + 1) =>
            /\ metrics'.processed_count + metrics'.error_count
                  = metrics.processed_count + metrics.error_count + 1
            /\ metrics'.processed_count >= metrics.processed_count
            /\ metrics'.error_count >= metrics.error_count
            /\ metrics'.processed_count + metrics'.error_count = idx
            /\ metrics'.flagged_count <= metrics'.processed_count
       /\ (pc = "loop" /\ pc' = "idle" /\ Get(response', "statusCode", 0) = 200) =>
            /\ response'.metrics.processed_count + response'.metrics.error_count
                  = response'.total_complaints_fetched
            /\ response'.total_complaints_fetched = Len(complaints)
            /\ response'.metrics.flagged_count
                  <= response'.metrics.processed_count]_vars

\* C24 witness: a run of two rows returned with one row processed and
\* flagged and one row counted as an error
C24_Witness ==
    /\ pc = "idle" /\ Get(response, "statusCode", 0) = 200
    /\ response.total_complaints_fetched = 2
    /\ response.metrics.processed_count = 1
    /\ response.metrics.flagged_count = 1
    /\ response.metrics.error_count = 1

\* C25: with the default threshold of 3, every assessment the aggregator
\* scored with should_flag has requires_ai_analysis, so the secondary
\* analyzer is called for it, and a decision tagged libraries_only with
\* should_flag comes only from the fail-safe of the aggregator.
C25_FlaggedImpliesEscalated ==
    (Analysed /\ severity_threshold = 3) =>
        /\ (Scored /\ Assessment.should_flag) =>
              /\ Assessment.requires_ai_analysis
              /\ AiCalled
              /\ Get(FinalDecision, "primary_method", "") # "libraries_only"
        /\ (/\ Get(FinalDecision, "primary_method", "") = "libraries_only"
            /\ FinalDecision.should_flag) =>
              /\ "error" \in DOMAIN Assessment
              /\ "requires_ai_analysis" \notin DOMAIN Assessment
              /\ ~AiCalled

\* C25 witness: threshold 3, one triggered method, a confidence above 0.7,
\* flagged, and the secondary analyzer was called
C25_Witness ==
    /\ Scored /\ severity_threshold = 3
    /\ Assessment.should_flag
    /\ Len(Assessment.flagged_by_methods) = 1
    /\ Assessment.confidence_score * 10 > 7 * ConfidenceOne
    /\ AiCalled

====
